---- MODULE Spec2Model ----
(***************************************************************************)
(* Model of mobb_fp_extractor.py: the MobbFPExtractor pipeline             *)
(* (get_active_reports -> get_fix_report_details -> get_issues_for_fix_    *)
(* report -> filter_irrelevant_issues -> _append_to_csv) and main().       *)
(*                                                                         *)
(* Python values are encoded as follows.                                   *)
(*   - A string-valued JSON field is a TLA+ string; the two sentinels      *)
(*     Absent (the key is missing from the dict) and None (the key holds   *)
(*     JSON null / Python None) stand for the two ways a value can be      *)
(*     missing.  dict.get(key, default) is the operator Get.               *)
(*   - A call that may raise returns a record with a field exc; exc = TRUE *)
(*     means the call raised an Exception (never a BaseException).         *)
(*   - Time is counted in hours; a datetime is [aware, local, off] with    *)
(*     off the UTC offset in hours.                                        *)
(*   - The CSV file is the sequence of its records, each a tuple of five   *)
(*     cells (csv quoting of commas/quotes inside a cell is not modelled,  *)
(*     no value of the model contains one).                                *)
(***************************************************************************)
EXTENDS Integers, Sequences, FiniteSets, TLC

VARIABLES
    pc,            \* position of main(): "main","init_csv","list","detail","issues","rows","return","exit"
    days_of_data,  \* self.days_of_data
    file,          \* the records of self.csv_filename (NoFile before _initialize_csv)
    report_ids,    \* process_all_reports: report_ids
    idx,           \* process_all_reports: 1-based position of the for loop over report_ids
    details,       \* process_all_reports: fix_report_details of the current report
    irrelevant,    \* process_all_reports: irrelevant_issues of the current report
    j,             \* process_all_reports: 1-based position of the inner for loop
    total,         \* process_all_reports: total_irrelevant_issues
    returned,      \* value returned by process_all_reports (Nothing until it returns)
    raised,        \* TRUE once process_all_reports has raised
    exitStatus,    \* exit status of the process (Nothing while running)
    requests,      \* every GET issued through _make_request, in order: [ep, id, at]
    env,           \* what the API and the file system did in this run (see EnvInit)
    l_in, l_out,   \* input and result of a stand-alone get_active_reports call
    f_in, f_out,   \* input and result of a stand-alone filter_irrelevant_issues call
    r_in, r_out    \* input and result of building and writing one export row

vars == <<pc, days_of_data, file, report_ids, idx, details, irrelevant, j, total,
          returned, raised, exitStatus, requests, env, l_in, l_out, f_in, f_out,
          r_in, r_out>>

pipeVars == <<pc, days_of_data, file, report_ids, idx, details, irrelevant, j, total,
              returned, raised, exitStatus, requests, env>>

-----------------------------------------------------------------------------
(* Bounds of the model *)

MaxReports == 2     \* entries in one listing response
MaxIssues == 2      \* issues in one issues response
MaxTags == 2        \* tags on one issue (stand-alone filter calls)

(* Program constants *)

DefaultDays == 7    \* self.config.get("daysOfData", 7)
HoursPerDay == 24   \* timedelta(days=...) counted in hours

-----------------------------------------------------------------------------
(* Python values *)

Absent == "<absent>"
None == "<None>"
\* An optional value: Nothing, or Some(v).
Nothing == <<>>
Some(v) == <<v>>
NoFile == <<>>

Get(v, default) == IF v = Absent THEN default ELSE v

Truthy(v) == v \notin {Absent, None, ""}

RECURSIVE SeqsUpTo(_, _)
SeqsUpTo(S, n) ==
    IF n = 0 THEN {<<>>}
    ELSE LET shorter == SeqsUpTo(S, n - 1)
         IN  shorter \cup {Append(s, x) : s \in {t \in shorter : Len(t) = n - 1}, x \in S}

-----------------------------------------------------------------------------
(* _make_request: outcome of one GET *)

FailureKinds == {"timeout", "http_error", "network", "bad_json"}

NoBody == [k |-> "none"]

Failures == {[k |-> f, body |-> NoBody] : f \in FailureKinds}

Ok(body) == [k |-> "ok", body |-> body]

\* Variant: the Timeout handler is missing, a timeout leaves the call as an
\* exception.
_make_request_TimeoutEscapes(outcome) ==
    IF outcome.k = "timeout"
    THEN [exc |-> TRUE, isNone |-> TRUE, body |-> NoBody]
    ELSE IF outcome.k \in FailureKinds
    THEN [exc |-> FALSE, isNone |-> TRUE, body |-> NoBody]
    ELSE [exc |-> FALSE, isNone |-> FALSE, body |-> outcome.body]

\* lines 85-103: every failure kind is caught and turned into None; a 2xx
\* response with a JSON body returns the parsed body.
_make_request(outcome) ==
    IF outcome.k \in FailureKinds
    THEN [exc |-> FALSE, isNone |-> TRUE, body |-> NoBody]
    ELSE [exc |-> FALSE, isNone |-> FALSE, body |-> outcome.body]

-----------------------------------------------------------------------------
(* Report Lister: get_active_reports *)

ReportIds == {"r1", "r2"}

\* The UTC offsets a createdOn string may carry: none at all (a naive
\* datetime), the suffix Z, or a numeric offset.
Offsets == {"naive", "Z", "+00:00", "+01:00"}

OffsetHours(off) == IF off = "+01:00" THEN 1 ELSE 0

\* created_on_str.replace('Z', '+00:00')
ReplaceZ(c) == IF c.off = "Z" THEN [c EXCEPT !.off = "+00:00"] ELSE c

\* datetime.fromisoformat: text that is no ISO date raises ValueError, and so
\* does the suffix Z before Python 3.11 (the caller replaces it first); a
\* string without offset gives a naive datetime.
fromisoformat(c) ==
    IF c.k # "iso" \/ c.off = "Z"
    THEN [exc |-> TRUE, aware |-> FALSE, local |-> 0, off |-> 0]
    ELSE [exc |-> FALSE, aware |-> c.off # "naive", local |-> c.local,
          off |-> OffsetHours(c.off)]

\* Variant: created_on > cutoff_date.
CompareGE_Strict(created_on, cutoff) ==
    IF ~created_on.aware
    THEN [exc |-> TRUE, val |-> FALSE]
    ELSE [exc |-> FALSE, val |-> created_on.local - created_on.off > cutoff]

\* created_on >= cutoff_date, cutoff_date an aware UTC datetime: comparing a
\* naive with an aware datetime raises TypeError.
CompareGE(created_on, cutoff) ==
    IF ~created_on.aware
    THEN [exc |-> TRUE, val |-> FALSE]
    ELSE [exc |-> FALSE, val |-> created_on.local - created_on.off >= cutoff]

\* datetime.now(timezone.utc) - timedelta(days=self.days_of_data)
cutoff_date(now, days) == now - HoursPerDay * days

\* lines 123-142, one iteration of the loop: TRUE iff report_id is appended.
\* A createdOn that is not a string (k = "number") has no .replace: the
\* AttributeError is caught like every other error of the try block.
IncludesReport(report, cutoff) ==
    LET report_id == Get(report.id, None)
        created_on_str == report.createdOn
    IN  IF ~Truthy(report_id) \/ created_on_str.k \in {"absent", "null", "empty"}
        THEN FALSE
        ELSE IF created_on_str.k = "number"
        THEN FALSE
        ELSE LET created_on == fromisoformat(ReplaceZ(created_on_str))
             IN  IF created_on.exc
                 THEN FALSE
                 ELSE LET ge == CompareGE(created_on, cutoff)
                      IN  ~ge.exc /\ ge.val

RECURSIVE FilterReports(_, _)
FilterReports(fix_reports, cutoff) ==
    IF fix_reports = <<>> THEN <<>>
    ELSE LET rest == FilterReports(Tail(fix_reports), cutoff)
         IN  IF IncludesReport(Head(fix_reports), cutoff)
             THEN <<Head(fix_reports).id>> \o rest
             ELSE rest

\* lines 105-145.  The listing body is [k, fixReport]: k = "empty" is {},
\* "nokey" a dict without fixReport, "null" a dict whose fixReport is null
\* (iterating None raises TypeError outside any try), "list" the usual body.
get_active_reports(outcome, now, days) ==
    LET response == _make_request(outcome)
    IN  IF response.exc THEN [exc |-> TRUE, val |-> <<>>]
        ELSE IF response.isNone \/ response.body.k = "empty"
        THEN [exc |-> FALSE, val |-> <<>>]
        ELSE IF response.body.k = "null" THEN [exc |-> TRUE, val |-> <<>>]
        ELSE LET fix_reports == IF response.body.k = "nokey" THEN <<>>
                                ELSE response.body.fixReport
             IN  [exc |-> FALSE,
                  val |-> FilterReports(fix_reports, cutoff_date(now, days))]

(* Inputs of the Lister *)

NowChoices == {1000, 1001}

DaysChoices == {1, DefaultDays}

CreatedOnNonIso == {[k |-> x, local |-> 0, off |-> "naive"] :
                       x \in {"absent", "garbage", "number"}}

CreatedOnIso(cutoff) == {[k |-> "iso", local |-> t, off |-> o] :
                           t \in (cutoff - 1)..(cutoff + 1), o \in Offsets}

Reports(cutoff) == {[id |-> i, createdOn |-> c] :
                       i \in ReportIds \cup {Absent},
                       c \in CreatedOnNonIso \cup CreatedOnIso(cutoff)}

ListingBody(k, reports) == [k |-> k, fixReport |-> reports]

ListingOutcomes(cutoff) ==
    Failures
    \cup {Ok(ListingBody(k, <<>>)) : k \in {"empty", "nokey", "null"}}
    \cup {Ok(ListingBody("list", rs)) : rs \in SeqsUpTo(Reports(cutoff), MaxReports)}

-----------------------------------------------------------------------------
(* Report Detail Fetcher: get_fix_report_details *)

\* A nested JSON object field: k = "absent" (no such key), "null", or "obj"
\* with the object's name field.
Named(k, name) == [k |-> k, name |-> name]

Objects(name) == {Named("absent", Absent), Named("null", Absent)}
                 \cup {Named("obj", n) : n \in {Absent, None, name}}

\* fixReport[0]: vr is the vulnerabilityReport key ("absent", "null" or
\* "obj"), project its project field, repo the repo field.
FixReports == {[vr |-> v, project |-> p, repo |-> r] :
                  v \in {"absent", "null", "obj"},
                  p \in Objects("proj"), r \in Objects("repo")}

DetailBody(k, reports) == [k |-> k, fixReport |-> reports]

DetailOutcomes ==
    Failures
    \cup {Ok(DetailBody("empty", <<>>)), Ok(DetailBody("list", <<>>))}
    \cup {Ok(DetailBody("list", <<fr>>)) : fr \in FixReports}

NoDetails == [exc |-> FALSE, isNone |-> TRUE, project_name |-> None,
              repo_name |-> None, fix_report_id |-> None]

\* lines 167-170: vulnerability_report.get("project", {}) on a null
\* vulnerabilityReport raises AttributeError; an absent one defaults to {}.
ProjectName(fix_report) ==
    IF fix_report.vr = "null" THEN [exc |-> TRUE, val |-> None]
    ELSE IF fix_report.vr = "absent" \/ fix_report.project.k # "obj"
    THEN [exc |-> FALSE, val |-> None]
    ELSE [exc |-> FALSE, val |-> Get(fix_report.project.name, None)]

\* lines 172-174
RepoName(fix_report) ==
    IF fix_report.repo.k # "obj" THEN None ELSE Get(fix_report.repo.name, None)

\* lines 147-180
get_fix_report_details(outcome, fix_report_id) ==
    LET response == _make_request(outcome)
    IN  IF response.exc THEN [NoDetails EXCEPT !.exc = TRUE]
        ELSE IF response.isNone \/ response.body.k = "empty" THEN NoDetails
        ELSE IF response.body.fixReport = <<>> THEN NoDetails
        ELSE LET fix_report == response.body.fixReport[1]
                 project_name == ProjectName(fix_report)
             IN  IF project_name.exc THEN [NoDetails EXCEPT !.exc = TRUE]
                 ELSE [exc |-> FALSE, isNone |-> FALSE,
                       project_name |-> project_name.val,
                       repo_name |-> RepoName(fix_report),
                       fix_report_id |-> fix_report_id]

-----------------------------------------------------------------------------
(* Issue Fetcher: get_issues_for_fix_report *)

\* The issues body is [k, issues]: k = "empty" is {}, "nowrapper" a dict
\* without getIssuesApiV5, "nullwrapper" one whose getIssuesApiV5 is null
\* (None.get raises AttributeError), "nolist" a wrapper without
\* vulnerability_report_issue, "list" the usual body.
IssuesBody(k, issues) == [k |-> k, issues |-> issues]

IssuesOutcomes(issues) ==
    Failures
    \cup {Ok(IssuesBody(k, <<>>)) : k \in {"empty", "nowrapper", "nullwrapper", "nolist"}}
    \cup {Ok(IssuesBody("list", issues))}

\* Variant: vulnerability_report_issue is read from the response itself, not
\* from its getIssuesApiV5 wrapper, so a wrapped list is never found.
get_issues_unwrapped(outcome) ==
    LET response == _make_request(outcome)
    IN  IF response.exc THEN [exc |-> TRUE, val |-> <<>>]
        ELSE [exc |-> FALSE, val |-> <<>>]

\* lines 182-200
get_issues_for_fix_report(outcome) ==
    LET response == _make_request(outcome)
    IN  IF response.exc THEN [exc |-> TRUE, val |-> <<>>]
        ELSE IF response.isNone \/ response.body.k = "empty"
        THEN [exc |-> FALSE, val |-> <<>>]
        ELSE IF response.body.k = "nullwrapper" THEN [exc |-> TRUE, val |-> <<>>]
        ELSE IF response.body.k \in {"nowrapper", "nolist"}
        THEN [exc |-> FALSE, val |-> <<>>]
        ELSE [exc |-> FALSE, val |-> response.body.issues]

-----------------------------------------------------------------------------
(* Relevance Filter: filter_irrelevant_issues *)

\* A tag is given by its vulnerability_report_issue_tag_value (Absent, None or
\* a string); NotADict is a tag entry that is no JSON object (tag.get raises
\* AttributeError).
NotADict == "<not a dict>"

\* An issue is [vendorInstanceId, fpDescription, tags, concatenated_tags];
\* tags is [k, v]: k = "absent" (no vulnerabilityReportIssueTags key), "null"
\* or "list" with the tag sequence v.
Tags(k, v) == [k |-> k, v |-> v]

Issue(vid, fp, tags) ==
    [vendorInstanceId |-> vid, fpDescription |-> fp, tags |-> tags,
     concatenated_tags |-> Absent]

\* Variant: "if tag_value is not None" in place of "if tag_value".
RECURSIVE TagValues_KeepEmpty(_)
TagValues_KeepEmpty(tags) ==
    IF tags = <<>> THEN [exc |-> FALSE, val |-> <<>>]
    ELSE IF Head(tags) = NotADict THEN [exc |-> TRUE, val |-> <<>>]
    ELSE LET tag_value == Get(Head(tags), None)
             rest == TagValues_KeepEmpty(Tail(tags))
         IN  IF rest.exc THEN rest
             ELSE IF tag_value # None
             THEN [rest EXCEPT !.val = <<tag_value>> \o rest.val]
             ELSE rest

\* lines 212-216
RECURSIVE TagValues(_)
TagValues(tags) ==
    IF tags = <<>> THEN [exc |-> FALSE, val |-> <<>>]
    ELSE IF Head(tags) = NotADict THEN [exc |-> TRUE, val |-> <<>>]
    ELSE LET tag_value == Get(Head(tags), None)
             rest == TagValues(Tail(tags))
         IN  IF rest.exc THEN rest
             ELSE IF Truthy(tag_value)
             THEN [rest EXCEPT !.val = <<tag_value>> \o rest.val]
             ELSE rest

\* sep.join(values)
RECURSIVE Join(_, _)
Join(sep, values) ==
    IF values = <<>> THEN ""
    ELSE IF Len(values) = 1 THEN values[1]
    ELSE values[1] \o sep \o Join(sep, Tail(values))

\* lines 202-223
RECURSIVE filter_irrelevant_issues(_)
filter_irrelevant_issues(issues) ==
    IF issues = <<>> THEN [exc |-> FALSE, val |-> <<>>]
    ELSE LET issue == Head(issues)
             tags == IF issue.tags.k = "list" THEN issue.tags.v ELSE <<>>
             tag_values == TagValues(tags)
             rest == filter_irrelevant_issues(Tail(issues))
         IN  IF tag_values.exc THEN [exc |-> TRUE, val |-> <<>>]
             ELSE IF rest.exc THEN rest
             ELSE IF tag_values.val # <<>>
             THEN [rest EXCEPT !.val =
                       <<[issue EXCEPT !.concatenated_tags = Join(" | ", tag_values.val)]>>
                       \o rest.val]
             ELSE rest

-----------------------------------------------------------------------------
(* Exporter: the export row and the CSV file *)

fieldnames == <<"project_name", "repo_name", "vendorInstanceId", "state", "FPDescription">>

\* Variant: vendorInstanceId is passed on as issue.get("vendorInstanceId").
issue_data_RawId(fix_report_details, issue) ==
    [project_name |-> fix_report_details.project_name,
     repo_name |-> fix_report_details.repo_name,
     vendorInstanceId |-> Get(issue.vendorInstanceId, None),
     state |-> Get(issue.concatenated_tags, ""),
     FPDescription |-> Get(issue.fpDescription, "")]

\* lines 254-260.  fix_report_details always has the keys project_name and
\* repo_name, so the "" defaults of its .get calls never apply.
issue_data(fix_report_details, issue) ==
    [project_name |-> fix_report_details.project_name,
     repo_name |-> fix_report_details.repo_name,
     vendorInstanceId |-> IF Get(issue.vendorInstanceId, None) # None
                          THEN Get(issue.vendorInstanceId, None)
                          ELSE "null",
     state |-> Get(issue.concatenated_tags, ""),
     FPDescription |-> Get(issue.fpDescription, "")]

\* csv.DictWriter.writerow: None is written as the empty cell, a string as is.
Cell(v) == IF v = None THEN "" ELSE v

writerow(row) ==
    <<Cell(row.project_name), Cell(row.repo_name), Cell(row.vendorInstanceId),
      Cell(row.state), Cell(row.FPDescription)>>

\* lines 299-310: the file is created with the header alone.
_initialize_csv == <<fieldnames>>

\* Variant: the file is opened with mode 'w' as in write_csv_report, the
\* record replaces what the file held.
_append_to_csv_Truncate(csvfile, row, ok) ==
    IF ok THEN <<writerow(row)>> ELSE csvfile

\* lines 312-321: one record is appended; an error of the write (ok = FALSE)
\* is logged and swallowed, the file is left as it was.
_append_to_csv(csvfile, row, ok) ==
    IF ok THEN Append(csvfile, writerow(row)) ELSE csvfile

-----------------------------------------------------------------------------
(* Configuration: _load_config and __init__ *)

\* The config file: k = "missing" (no file), "badjson", or "dict" with the
\* keys mobb_api_token and daysOfData.
ConfigFiles ==
    {[k |-> x, mobb_api_token |-> Absent, daysOfData |-> Absent] : x \in {"missing", "badjson"}}
    \cup {[k |-> "dict", mobb_api_token |-> t, daysOfData |-> d] :
             t \in {Absent, None, "", "YOUR_MOBB_API_TOKEN_HERE", "tok"},
             d \in {Absent, "1"}}

\* The number a daysOfData entry of the config file denotes.
DaysValue(d) == IF d = "1" THEN 1 ELSE DefaultDays

\* lines 55-68: TRUE iff _load_config raises.
_load_config(config) ==
    \/ config.k \in {"missing", "badjson"}
    \/ ~Truthy(Get(config.mobb_api_token, None))
    \/ Get(config.mobb_api_token, None) = "YOUR_MOBB_API_TOKEN_HERE"

-----------------------------------------------------------------------------
(* Inputs of the pipeline run *)

\* One relevant, one irrelevant and one malformed issue.
PipelineIssues ==
    { Issue(Absent, Absent, Tags("list", <<"", "fp">>)),
      Issue("v2", "desc", Tags("list", <<"">>)),
      Issue("v3", Absent, Tags("list", <<"fp", NotADict>>)) }

PipelineIssueLists == SeqsUpTo(PipelineIssues, MaxIssues)

PipelineDetailOutcomes ==
    Failures
    \cup {Ok(DetailBody("empty", <<>>)), Ok(DetailBody("list", <<>>))}
    \cup {Ok(DetailBody("list", <<fr>>)) : fr \in
            {[vr |-> "obj", project |-> Named("obj", "proj"), repo |-> Named("null", Absent)],
             [vr |-> "null", project |-> Named("absent", Absent), repo |-> Named("obj", "repo")]}}

\* The relevance predicate of the data model: the issue carries a tag list
\* with at least one non-empty tag value.
IsNonEmptyValue(t) == t \notin {Absent, None, "", NotADict}

Relevant(issue) ==
    /\ issue.tags.k = "list"
    /\ \E n \in 1..Len(issue.tags.v) : IsNonEmptyValue(issue.tags.v[n])

NumRelevant(issues) == Cardinality({n \in 1..Len(issues) : Relevant(issues[n])})

WellFormed(issues) ==
    \A n \in 1..Len(issues) :
        issues[n].tags.k = "list" =>
            \A m \in 1..Len(issues[n].tags.v) : issues[n].tags.v[m] # NotADict

-----------------------------------------------------------------------------
(* The run: main() -> MobbFPExtractor() -> run() -> process_all_reports() *)

\* What the environment did in the current run:
\*   interrupted   the user interrupted the process (KeyboardInterrupt);
\*   last          the latest input of the environment: the call it answered
\*                 (ep) and how (kind): "failed" is a transient failure of the
\*                 request or of the write, "empty" an empty payload,
\*                 "malformed" a body that is JSON of an unexpected shape;
\*   expected      relevant issues the API held for the report ids handled so far;
\*   due           relevant issues of the reports whose detail and issues
\*                 calls both answered with a well-formed, non-empty body;
\*   excluded      ids of the listing response none of whose entries was
\*                 created inside the window (what the API sent, classified
\*                 without regard to what get_active_reports made of it);
\*   failedWrites  row writes that failed;
\*   writes        for each write of a row, in order: the positions idx and j
\*                 of the two loops, and whether the write succeeded.
Last(ep, kind) == [ep |-> ep, kind |-> kind]

EnvInit ==
    [interrupted |-> FALSE, last |-> Last("none", "none"), expected |-> 0, due |-> 0,
     excluded |-> {}, failedWrites |-> 0, writes |-> <<>>]

NoReportIds == <<>>

PipeInit ==
    /\ pc = "main"
    /\ days_of_data = DefaultDays
    /\ file = NoFile
    /\ report_ids = NoReportIds
    /\ idx = 0
    /\ details = NoDetails
    /\ irrelevant = <<>>
    /\ j = 0
    /\ total = 0
    /\ returned = Nothing
    /\ raised = FALSE
    /\ exitStatus = Nothing
    /\ requests = <<>>
    /\ env = EnvInit

Init ==
    /\ PipeInit
    /\ l_in = Nothing /\ l_out = Nothing
    /\ f_in = Nothing /\ f_out = Nothing
    /\ r_in = Nothing /\ r_out = Nothing

Idle == UNCHANGED <<l_in, l_out, f_in, f_out, r_in, r_out>>

\* main, line 365: an Exception out of MobbFPExtractor() or run() ends the
\* process with sys.exit(1).
ExitOnException == 1

\* Variant: the KeyboardInterrupt handler ends with sys.exit(1) too.
ExitOnInterrupt_Error == ExitOnException

\* main, lines 361-362: KeyboardInterrupt is reported and main returns.
ExitOnInterrupt == 0

\* main returns normally.
ExitOnSuccess == 0

\* __init__, lines 27-30
LoadConfig ==
    /\ pc = "main"
    /\ \E config \in ConfigFiles :
          IF _load_config(config)
          THEN /\ pc' = "exit"
               /\ exitStatus' = Some(ExitOnException)
               /\ env' = [env EXCEPT !.last = Last("config", "error")]
               /\ UNCHANGED days_of_data
          ELSE /\ pc' = "init_csv"
               /\ days_of_data' = IF config.daysOfData = Absent THEN DefaultDays
                                  ELSE DaysValue(config.daysOfData)
               /\ env' = [env EXCEPT !.last = Last("config", "ok")]
               /\ UNCHANGED exitStatus
    /\ UNCHANGED <<file, report_ids, idx, details, irrelevant, j, total, returned,
                   raised, requests>>
    /\ Idle

\* __init__, line 49: _initialize_csv re-raises an error of the write.
InitializeCsv ==
    /\ pc = "init_csv"
    /\ \E ok \in BOOLEAN :
          IF ok
          THEN /\ file' = _initialize_csv
               /\ pc' = "list"
               /\ env' = [env EXCEPT !.last = Last("csv", "ok")]
               /\ UNCHANGED exitStatus
          ELSE /\ pc' = "exit"
               /\ exitStatus' = Some(ExitOnException)
               /\ env' = [env EXCEPT !.last = Last("csv", "failed")]
               /\ UNCHANGED file
    /\ UNCHANGED <<days_of_data, report_ids, idx, details, irrelevant, j, total,
                   returned, raised, requests>>
    /\ Idle

Request(ep, id, at) == [ep |-> ep, id |-> id, at |-> at]

ListingKind(outcome) ==
    IF outcome.k \in FailureKinds THEN "failed"
    ELSE IF outcome.body.k = "null" THEN "malformed"
    ELSE "ok"

\* The entry of a listing response carries a creation instant at or after
\* the cutoff.
CreatedInWindow(report, cutoff) ==
    /\ report.createdOn.k = "iso"
    /\ report.createdOn.off # "naive"
    /\ report.createdOn.local - OffsetHours(report.createdOn.off) >= cutoff

\* The ids of a listing response that has no entry of theirs inside the window.
OutsideWindow(outcome, cutoff) ==
    IF outcome.k \in FailureKinds \/ outcome.body.k # "list" THEN {}
    ELSE LET rs == outcome.body.fixReport
             ns == 1..Len(rs)
         IN  {rs[n].id : n \in ns} \ ({Absent} \cup
                 {rs[n].id : n \in {m \in ns : CreatedInWindow(rs[m], cutoff)}})

\* process_all_reports, lines 230-235; an exception of get_active_reports
\* leaves process_all_reports and run (line 353) and reaches main.
GetActiveReports ==
    /\ pc = "list"
    /\ \E now \in NowChoices :
       \E outcome \in ListingOutcomes(cutoff_date(now, days_of_data)) :
          LET ids == get_active_reports(outcome, now, days_of_data)
          IN  /\ requests' = Append(requests, Request("listing", None, 0))
              /\ env' = [env EXCEPT !.last = Last("listing", ListingKind(outcome)),
                                    !.excluded =
                                        OutsideWindow(outcome, cutoff_date(now, days_of_data))]
              /\ IF ids.exc
                 THEN /\ raised' = TRUE
                      /\ pc' = "exit"
                      /\ exitStatus' = Some(ExitOnException)
                      /\ UNCHANGED <<report_ids, idx, returned>>
                 ELSE IF ids.val = <<>>
                 THEN /\ returned' = Some(0)
                      /\ pc' = "return"
                      /\ UNCHANGED <<report_ids, idx, raised, exitStatus>>
                 ELSE /\ report_ids' = ids.val
                      /\ idx' = 1
                      /\ pc' = "detail"
                      /\ UNCHANGED <<returned, raised, exitStatus>>
    /\ UNCHANGED <<days_of_data, file, details, irrelevant, j, total>>
    /\ Idle

\* The for loop of line 237 advances to the next report id, or ends and
\* process_all_reports returns total_irrelevant_issues (lines 272-273).
NextReport(count) ==
    /\ idx' = idx + 1
    /\ details' = NoDetails
    /\ irrelevant' = <<>>
    /\ j' = 0
    /\ IF idx < Len(report_ids)
       THEN pc' = "detail" /\ UNCHANGED returned
       ELSE pc' = "return" /\ returned' = Some(count)

\* Variant: the handler leaves the loop (break in place of continue).
OnReportException_Break ==
    /\ pc' = "return"
    /\ returned' = Some(total)
    /\ UNCHANGED <<idx, details, irrelevant, j>>

\* Variant: the null check of lines 241-242 is missing, the issues are fetched.
OnNoDetails_FetchIssues ==
    /\ pc' = "issues"
    /\ UNCHANGED <<idx, details, irrelevant, j, returned>>

\* Variant: a null detail result is answered by asking again for the same
\* report id.
OnNoDetails_Retry ==
    /\ pc' = "detail"
    /\ UNCHANGED <<idx, details, irrelevant, j, returned>>

\* lines 268-270: the exception is logged and the loop continues.
OnReportException == NextReport(total)

\* lines 241-242: a null detail result skips the report.
OnNoDetails == NextReport(total)

DetailKind(outcome) ==
    IF outcome.k \in FailureKinds THEN "failed"
    ELSE IF outcome.body.k = "empty" \/ outcome.body.fixReport = <<>> THEN "empty"
    ELSE IF outcome.body.fixReport[1].vr = "null" THEN "malformed"
    ELSE "ok"

\* lines 238-242.  When the report is left here, held is what the API holds
\* as its issues (they are never requested).
FetchDetails ==
    /\ pc = "detail"
    /\ \E outcome \in PipelineDetailOutcomes :
          LET report_id == report_ids[idx]
              fix_report_details == get_fix_report_details(outcome, report_id)
              last == Last("detail", DetailKind(outcome))
          IN  /\ requests' = Append(requests, Request("detail", report_id, idx))
              /\ IF fix_report_details.exc \/ fix_report_details.isNone
                 THEN /\ \E held \in PipelineIssueLists :
                            env' = [env EXCEPT !.last = last,
                                               !.expected = @ + NumRelevant(held)]
                      /\ IF fix_report_details.exc THEN OnReportException
                         ELSE OnNoDetails
                 ELSE /\ env' = [env EXCEPT !.last = last]
                      /\ details' = fix_report_details
                      /\ pc' = "issues"
                      /\ UNCHANGED <<idx, irrelevant, j, returned>>
    /\ UNCHANGED <<days_of_data, file, report_ids, total, raised, exitStatus>>
    /\ Idle

IssuesKind(outcome) ==
    IF outcome.k \in FailureKinds THEN "failed"
    ELSE IF outcome.body.k = "nullwrapper" THEN "malformed"
    ELSE IF outcome.body.k # "list" THEN "empty"
    ELSE IF WellFormed(outcome.body.issues) THEN "ok"
    ELSE "malformed"

\* lines 245-250; held is what the API holds as the issues of the report.
FetchIssues ==
    /\ pc = "issues"
    /\ \E held \in PipelineIssueLists :
       \E outcome \in IssuesOutcomes(held) :
          LET issues == get_issues_for_fix_report(outcome)
              irrelevant_issues == filter_irrelevant_issues(issues.val)
          IN  /\ requests' = Append(requests, Request("issues", report_ids[idx], idx))
              /\ env' = [env EXCEPT !.last = Last("issues", IssuesKind(outcome)),
                                    !.expected = @ + NumRelevant(held),
                                    !.due = IF IssuesKind(outcome) = "ok"
                                            THEN @ + NumRelevant(held) ELSE @]
              /\ IF issues.exc THEN OnReportException
                 ELSE IF issues.val = <<>> THEN NextReport(total)
                 ELSE IF irrelevant_issues.exc THEN OnReportException
                 ELSE IF irrelevant_issues.val = <<>> THEN NextReport(total)
                 ELSE /\ irrelevant' = irrelevant_issues.val
                      /\ j' = 1
                      /\ pc' = "rows"
                      /\ UNCHANGED <<idx, details, returned>>
    /\ UNCHANGED <<days_of_data, file, report_ids, total, raised, exitStatus>>
    /\ Idle

\* line 264
CountRow(count, ok) == count + 1

\* lines 253-266, one iteration of the inner loop
AppendRow ==
    /\ pc = "rows"
    /\ \E ok \in BOOLEAN :
          /\ file' = _append_to_csv(file, issue_data(details, irrelevant[j]), ok)
          /\ total' = CountRow(total, ok)
          /\ env' = [env EXCEPT !.last = Last("write", IF ok THEN "ok" ELSE "failed"),
                                !.failedWrites = IF ok THEN @ ELSE @ + 1,
                                !.writes = Append(@, [idx |-> idx, j |-> j, ok |-> ok])]
    /\ IF j < Len(irrelevant)
       THEN /\ j' = j + 1
            /\ UNCHANGED <<pc, idx, details, irrelevant, returned>>
       ELSE NextReport(total')
    /\ UNCHANGED <<days_of_data, report_ids, raised, exitStatus, requests>>
    /\ Idle

\* run, lines 341-348, and main returning
Return ==
    /\ pc = "return"
    /\ pc' = "exit"
    /\ exitStatus' = Some(ExitOnSuccess)
    /\ UNCHANGED <<days_of_data, file, report_ids, idx, details, irrelevant, j, total,
                   returned, raised, requests, env>>
    /\ Idle

\* KeyboardInterrupt, a BaseException, passes every "except Exception" and is
\* caught in main alone (lines 361-362).
Interrupt ==
    /\ pc # "exit"
    /\ pc' = "exit"
    /\ exitStatus' = Some(ExitOnInterrupt)
    /\ env' = [env EXCEPT !.interrupted = TRUE]
    /\ UNCHANGED <<days_of_data, file, report_ids, idx, details, irrelevant, j, total,
                   returned, raised, requests>>
    /\ Idle

Next ==
    \/ LoadConfig
    \/ InitializeCsv
    \/ GetActiveReports
    \/ FetchDetails
    \/ FetchIssues
    \/ AppendRow
    \/ Return
    \/ Interrupt

Spec == Init /\ [][Next]_vars

-----------------------------------------------------------------------------
(* Stand-alone calls of get_active_reports *)

InitLister ==
    /\ PipeInit
    /\ \E n \in NowChoices, d \in DaysChoices :
       \E o \in ListingOutcomes(cutoff_date(n, d)) :
          l_in = Some([outcome |-> o, now |-> n, days |-> d])
    /\ l_out = Nothing
    /\ f_in = Nothing /\ f_out = Nothing
    /\ r_in = Nothing /\ r_out = Nothing

CallLister ==
    /\ l_out = Nothing
    /\ l_out' = Some(get_active_reports(l_in[1].outcome, l_in[1].now, l_in[1].days))
    /\ UNCHANGED <<l_in, f_in, f_out, r_in, r_out>>
    /\ UNCHANGED pipeVars

NextLister == CallLister

SpecLister == InitLister /\ [][NextLister]_vars

-----------------------------------------------------------------------------
(* Stand-alone calls of filter_irrelevant_issues *)

FilterTagValues == {"", "fp", "dup"}

\* Tag lists of well-formed issues: every list over FilterTagValues, and some
\* lists with a tag whose value is null or missing.
FilterTagLists ==
    {Tags("absent", <<>>), Tags("null", <<>>)}
    \cup {Tags("list", v) : v \in SeqsUpTo(FilterTagValues, MaxTags)}
    \cup {Tags("list", <<None>>), Tags("list", <<Absent, "fp">>),
          Tags("list", <<"dup", None>>)}

FilterIssues == {Issue("v1", Absent, t) : t \in FilterTagLists}

InitFilter ==
    /\ PipeInit
    /\ \E issues \in SeqsUpTo(FilterIssues, MaxIssues) : f_in = Some(issues)
    /\ f_out = Nothing
    /\ l_in = Nothing /\ l_out = Nothing
    /\ r_in = Nothing /\ r_out = Nothing

CallFilter ==
    /\ f_out = Nothing
    /\ f_out' = Some(filter_irrelevant_issues(f_in[1]))
    /\ UNCHANGED <<f_in, l_in, l_out, r_in, r_out>>
    /\ UNCHANGED pipeVars

NextFilter == CallFilter

SpecFilter == InitFilter /\ [][NextFilter]_vars

-----------------------------------------------------------------------------
(* Stand-alone export of one row: lines 254-263 on one relevant issue *)

RowDetails ==
    {d \in {get_fix_report_details(o, "r1") : o \in DetailOutcomes} : ~d.exc /\ ~d.isNone}

RowIssues ==
    {Issue(vid, fp, Tags("list", t)) :
        vid \in {Absent, None, "", "v1", "null"},
        fp \in {Absent, None, "", "desc"},
        t \in {<<"fp">>, <<"fp", "", "dup">>}}

InitRow ==
    /\ PipeInit
    /\ \E d \in RowDetails, issue \in RowIssues :
          r_in = Some([details |-> d, issue |-> issue])
    /\ r_out = Nothing
    /\ l_in = Nothing /\ l_out = Nothing
    /\ f_in = Nothing /\ f_out = Nothing

ExportRow ==
    /\ r_out = Nothing
    /\ \E ok \in BOOLEAN :
          LET irrelevant_issues == filter_irrelevant_issues(<<r_in[1].issue>>).val
          IN  r_out' = Some(_append_to_csv(_initialize_csv,
                                           issue_data(r_in[1].details, irrelevant_issues[1]),
                                           ok))
    /\ UNCHANGED <<r_in, l_in, l_out, f_in, f_out>>
    /\ UNCHANGED pipeVars

NextRow == ExportRow

SpecRow == InitRow /\ [][NextRow]_vars

-----------------------------------------------------------------------------
(* Properties *)

DataRows == Len(file) - 1

FullRun == returned # Nothing

\* The request a step issues, if it issues one.
SendsRequest == requests' # requests

NewRequest == requests'[Len(requests')]

\* The loop over report_ids goes on with the next id, or ends with the
\* running total as the result.
GoesOn ==
    /\ idx' = idx + 1
    /\ IF idx < Len(report_ids)
       THEN pc' = "detail" /\ returned' = Nothing
       ELSE pc' = "return" /\ returned' = Some(total')

NoWriteFor(w, i) == \A k \in 1..Len(w) : w[k].idx # i

(* C1 as stated: after a full run of process_all_reports the number of data
   rows of the output file equals the number of relevant issues of all the
   report ids get_active_reports returned. *)
C1_RowsEqualAllRelevant == FullRun => DataRows = env.expected

(* C1 as amended: after a full run the number of data rows equals the number
   of relevant issues of the reports whose detail call gave a non-null result
   and whose issues call gave a well-formed issue list, less the number of
   rows whose write failed. *)
C1_RowsEqualProcessedRelevant == FullRun => DataRows = env.due - env.failedWrites

C1_Witness ==
    /\ FullRun
    /\ DataRows >= 1
    /\ env.failedWrites >= 1
    /\ env.due >= 2
    /\ env.expected > env.due

(* C2: get_active_reports returns the id of a report iff the report has a
   creation timestamp that parses to an instant (an ISO string with a UTC
   offset or the suffix Z) at or after cutoff = now - window, in the order of
   the listing response; a failed listing call returns no id. *)
UtcOffset(off) == CASE off = "Z" -> 0 [] off = "+00:00" -> 0 [] off = "+01:00" -> 1

InWindow(report, now, days) ==
    /\ report.id \in ReportIds
    /\ report.createdOn.k = "iso"
    /\ report.createdOn.off # "naive"
    /\ report.createdOn.local - UtcOffset(report.createdOn.off) >= now - 24 * days

RECURSIVE IdsInWindow(_, _, _)
IdsInWindow(reports, now, days) ==
    IF reports = <<>> THEN <<>>
    ELSE LET n == Len(reports)
             front == IdsInWindow(SubSeq(reports, 1, n - 1), now, days)
         IN  IF InWindow(reports[n], now, days) THEN Append(front, reports[n].id)
             ELSE front

C2_ListerSelectsWindow ==
    l_out # Nothing =>
        LET in == l_in[1]
            out == l_out[1]
        IN  /\ in.outcome.k \in FailureKinds => ~out.exc /\ out.val = <<>>
            /\ (in.outcome.k = "ok" /\ in.outcome.body.k = "list") =>
                   /\ ~out.exc
                   /\ out.val = IdsInWindow(in.outcome.body.fixReport, in.now, in.days)

C2_Witness ==
    /\ l_out # Nothing
    /\ l_in[1].outcome.k = "ok"
    /\ l_in[1].outcome.body.k = "list"
    /\ LET reports == l_in[1].outcome.body.fixReport
           cutoff == l_in[1].now - 24 * l_in[1].days
       IN  /\ Len(reports) = 2
           /\ reports[1].id = "r2" /\ reports[2].id = "r1"
           /\ reports[1].createdOn.k = "iso" /\ reports[1].createdOn.off = "+01:00"
           /\ reports[1].createdOn.local = cutoff
           /\ reports[2].createdOn.k = "iso" /\ reports[2].createdOn.off = "Z"
           /\ reports[2].createdOn.local = cutoff
    /\ l_out[1].val = <<"r1">>

(* C3: filter_irrelevant_issues returns exactly the issues whose tag sequence
   has at least one non-empty value, in input order, each with its non-empty
   tag values joined by " | " in original order; an issue with an empty tag
   list is excluded. *)
RECURSIVE JoinedState(_)
JoinedState(tags) ==
    IF tags = <<>> THEN ""
    ELSE LET n == Len(tags)
             front == JoinedState(SubSeq(tags, 1, n - 1))
         IN  IF ~IsNonEmptyValue(tags[n]) THEN front
             ELSE IF front = "" THEN tags[n]
             ELSE front \o " | " \o tags[n]

RelevantAt(issues) == {n \in 1..Len(issues) : Relevant(issues[n])}

\* The k-th smallest element of the set S of numbers.
Nth(S, k) == CHOOSE n \in S : Cardinality({m \in S : m < n}) = k - 1

C3_FilterKeepsRelevant ==
    f_out # Nothing =>
        LET issues == f_in[1]
            out == f_out[1]
            at == RelevantAt(issues)
        IN  /\ ~out.exc
            /\ Len(out.val) = Cardinality(at)
            /\ \A k \in 1..Len(out.val) :
                  LET issue == issues[Nth(at, k)]
                  IN  out.val[k] = [issue EXCEPT
                                       !.concatenated_tags = JoinedState(issue.tags.v)]
            /\ \A n \in 1..Len(issues) :
                  (issues[n].tags.k = "list" /\ issues[n].tags.v = <<>>) => n \notin at

C3_Witness ==
    /\ f_out # Nothing
    /\ Len(f_in[1]) = 2
    /\ f_in[1][1].tags = Tags("list", <<>>)
    /\ f_in[1][2].tags = Tags("list", <<"fp", "dup">>)
    /\ Len(f_out[1].val) = 1
    /\ f_out[1].val[1].concatenated_tags = "fp | dup"

(* C4: when get_fix_report_details gives null for a report id (the call
   failed or the payload is empty) the report is skipped: the file and the
   running total stay as they are, the only request made for the report is
   the detail request, and the loop goes on with the next id.  An issues
   request is only ever made for the report whose detail call just answered
   with a usable payload. *)
NullDetailStep ==
    /\ pc = "detail"
    /\ SendsRequest
    /\ env'.last \in {Last("detail", "failed"), Last("detail", "empty")}

C4_Step ==
    /\ NullDetailStep =>
          /\ file' = file
          /\ total' = total
          /\ env'.writes = env.writes
          /\ requests' = Append(requests, Request("detail", report_ids[idx], idx))
          /\ GoesOn
    /\ (SendsRequest /\ NewRequest.ep = "issues") =>
          /\ env.last = Last("detail", "ok")
          /\ NewRequest = Request("issues", report_ids[idx], idx)
          /\ requests[Len(requests)] = Request("detail", report_ids[idx], idx)
          /\ NoWriteFor(env.writes, idx)

C4_NullDetailSkipsReport == [][C4_Step]_vars

C4_Witness ==
    /\ pc = "detail"
    /\ idx = 2
    /\ env.last = Last("detail", "empty")
    /\ requests = <<Request("listing", None, 0), Request("detail", report_ids[1], 1)>>
    /\ env.expected >= 1
    /\ file = <<fieldnames>>

(* C5: if an exception is raised while process_all_reports handles one report
   id, the report has no row in the output file and adds nothing to the
   running total, the rows of the other reports are left as they are, and the
   loop goes on with the next report id. *)
ExceptionStep ==
    /\ SendsRequest
    /\ env'.last \in {Last("detail", "malformed"), Last("issues", "malformed")}

C5_Step ==
    /\ ExceptionStep =>
          /\ file' = file
          /\ total' = total
          /\ NoWriteFor(env'.writes, idx)
          /\ GoesOn
    /\ \A k \in 1..Len(env'.writes) :
          k > Len(env.writes) => env'.writes[k].idx = idx /\ pc = "rows"
    /\ idx' >= idx

C5_ExceptionIsolated == [][C5_Step]_vars

C5_Witness ==
    /\ pc = "return"
    /\ idx = 3
    /\ env.last = Last("issues", "malformed")
    /\ NoWriteFor(env.writes, 2)
    /\ DataRows >= 1
    /\ returned = Some(total)

(* C6: the vendorInstanceId column of an export row holds the literal string
   null when the issue's vendorInstanceId is missing or null (never an empty
   cell), and the issue's value when it is present. *)
C6_VendorInstanceIdCell ==
    (r_out # Nothing /\ Len(r_out[1]) = 2) =>
        LET vid == r_in[1].issue.vendorInstanceId
            cell == r_out[1][2][3]
        IN  /\ vid \in {Absent, None} => cell = "null" /\ cell # ""
            /\ vid \notin {Absent, None} => cell = vid

C6_Witness ==
    /\ r_out # Nothing
    /\ Len(r_out[1]) = 2
    /\ r_in[1].issue.vendorInstanceId = None
    /\ r_out[1][2][3] = "null"

(* C7 as stated: the process exits with status 0 on a successful run, and
   with a non-zero status on a configuration error and on a user
   interruption at any point of the run. *)
Succeeded == ~env.interrupted /\ FullRun

ConfigError == ~env.interrupted /\ env.last = Last("config", "error")

C7_InterruptExitsNonZero ==
    pc = "exit" =>
        /\ Succeeded => exitStatus = Some(0)
        /\ ConfigError => exitStatus # Nothing /\ exitStatus # Some(0)
        /\ env.interrupted => exitStatus # Nothing /\ exitStatus # Some(0)

(* C7 as amended: the process exits with status 0 on a successful run and on
   a user interruption at any point of the run, and with a non-zero status on
   a configuration error. *)
C7_ExitStatus ==
    pc = "exit" =>
        /\ Succeeded => exitStatus = Some(0)
        /\ ConfigError => exitStatus # Nothing /\ exitStatus # Some(0)
        /\ env.interrupted => exitStatus = Some(0)

C7_Witness ==
    /\ pc = "exit"
    /\ env.interrupted
    /\ DataRows >= 1
    /\ returned = Nothing

(* C8: the value process_all_reports returns equals the number of rows
   appended to the output file during the run, also when row writes fail. *)
C8_ReturnedEqualsRowsWritten == FullRun => returned = Some(DataRows)

(* C9: transient fetch failures never make process_all_reports raise (it
   raises only on a listing body of an unexpected shape) and every step of it
   makes progress, so it ends returning a count; a failed listing call gives
   no id, the result 0 and a file with the header alone; a failed detail call
   skips the report; a failed issues call gives the report no issue. *)
Running == {"list", "detail", "issues", "rows"}

ProcessStep == GetActiveReports \/ FetchDetails \/ FetchIssues \/ AppendRow

Phase ==
    CASE pc = "main" -> 5
      [] pc = "init_csv" -> 4
      [] pc = "list" -> 3
      [] pc \in {"detail", "issues", "rows"} -> 2
      [] pc = "return" -> 1
      [] pc = "exit" -> 0

Stage ==
    CASE pc = "detail" -> 3
      [] pc = "issues" -> 2
      [] pc = "rows" -> 1
      [] OTHER -> 0

Progress == <<Phase, Len(report_ids) - idx, Stage, Len(irrelevant) - j>>

RECURSIVE LexLess(_, _)
LexLess(a, b) ==
    /\ a # <<>>
    /\ \/ a[1] < b[1]
       \/ a[1] = b[1] /\ LexLess(Tail(a), Tail(b))

C9_Inv ==
    /\ raised => env.last = Last("listing", "malformed")
    /\ pc \in Running => ENABLED ProcessStep
    /\ pc = "return" => returned # Nothing /\ returned[1] \in Nat
    /\ pc \in Running \cup {"return"} => ~raised /\ exitStatus = Nothing

C9_Step ==
    /\ (SendsRequest /\ env'.last = Last("listing", "failed")) =>
          /\ ~raised'
          /\ report_ids' = <<>>
          /\ returned' = Some(0)
          /\ file' = <<fieldnames>>
          /\ pc' = "return"
    /\ (SendsRequest /\ env'.last = Last("detail", "failed")) =>
          /\ ~raised'
          /\ file' = file
          /\ NoWriteFor(env'.writes, idx)
          /\ GoesOn
    /\ (SendsRequest /\ env'.last = Last("issues", "failed")) =>
          /\ ~raised'
          /\ irrelevant' = <<>>
          /\ file' = file
          /\ GoesOn
    /\ pc \in Running => LexLess(Progress', Progress)

C9_FetchFailuresDegrade == []C9_Inv /\ [][C9_Step]_vars

C9_Witness ==
    /\ pc = "return"
    /\ env.last = Last("listing", "failed")
    /\ returned = Some(0)
    /\ file = <<fieldnames>>
    /\ Len(requests) = 1

(* C10: once created, the output file is the 5-column header followed by the
   rows written so far: a step leaves the file as it is or appends one row to
   it, the row of the current issue of the current report; the rows of a
   report are all written before the loop moves to the next report, no
   request for a report is made before the rows of the reports before it are
   written, and rows are written in the order of report_ids and, within a
   report, in the order of the filter's result. *)
OkWrites == {k \in 1..Len(env.writes) : env.writes[k].ok}

WriteBefore(a, b) == a.idx < b.idx \/ (a.idx = b.idx /\ a.j < b.j)

C10_Inv ==
    file # NoFile =>
        /\ file[1] = fieldnames
        /\ \A k \in 1..Len(file) : Len(file[k]) = 5
        /\ DataRows = Cardinality(OkWrites)
        /\ \A k \in 1..Len(env.writes) : \A m \in 1..Len(env.writes) :
              k < m => WriteBefore(env.writes[k], env.writes[m])
        /\ \A k \in 1..Len(env.writes) : env.writes[k].idx <= idx

C10_Step ==
    /\ file = NoFile => file' \in {NoFile, <<fieldnames>>}
    /\ file # NoFile =>
          \/ file' = file
          \/ /\ pc = "rows"
             /\ file' = Append(file, writerow(issue_data(details, irrelevant[j])))
             /\ env'.writes = Append(env.writes, [idx |-> idx, j |-> j, ok |-> TRUE])
    /\ (pc = "rows" /\ pc' = "rows") =>
          idx' = idx /\ j' = j + 1 /\ irrelevant' = irrelevant /\ details' = details
    /\ (pc = "rows" /\ idx' # idx) => j = Len(irrelevant) /\ idx' = idx + 1
    /\ (pc = "issues" /\ pc' = "rows") =>
          j' = 1 /\ irrelevant' = filter_irrelevant_issues(irrelevant').val
    /\ (SendsRequest /\ NewRequest.ep # "listing") =>
          /\ NewRequest.at = idx
          /\ \A k \in 1..Len(env.writes) : env.writes[k].idx < idx

C10_FileIsAppendOnly == []C10_Inv /\ [][C10_Step]_vars

C10_Witness ==
    /\ pc = "return"
    /\ DataRows = 3
    /\ env.failedWrites = 1
    /\ env.writes[1].idx = 1
    /\ env.writes[4].idx = 2

(* C11: no request is retried and the requests are gated by the Lister.  The
   listing endpoint is requested at most once, first of all requests, and
   exactly once in a run in which process_all_reports returned or raised;
   every detail and issues request is for an occurrence report_ids[at] of an
   id the Lister returned, never for an id the Lister excluded; each
   occurrence gets at most one detail and at most one issues request; an
   issues request directly follows the detail request of the same occurrence,
   and is made only when that detail call gave a non-null result. *)
RequestsOf(ep) == {k \in 1..Len(requests) : requests[k].ep = ep}

OncePerOccurrence(ep) ==
    \A k \in RequestsOf(ep), m \in RequestsOf(ep) : requests[k].at = requests[m].at => k = m

C11_Inv ==
    /\ RequestsOf("listing") \subseteq {1}
    /\ (FullRun \/ raised) => RequestsOf("listing") = {1}
    /\ \A k \in RequestsOf("detail") \cup RequestsOf("issues") :
          /\ requests[k].at \in 1..Len(report_ids)
          /\ requests[k].at <= idx
          /\ requests[k].id = report_ids[requests[k].at]
          /\ requests[k].id \notin env.excluded
    /\ OncePerOccurrence("detail")
    /\ OncePerOccurrence("issues")
    /\ \A k \in RequestsOf("issues") :
          /\ k > 1
          /\ requests[k - 1] = Request("detail", requests[k].id, requests[k].at)

C11_Step ==
    /\ SendsRequest => requests' = Append(requests, NewRequest)
    /\ ~SendsRequest => requests' = requests
    /\ (SendsRequest /\ NewRequest.ep = "issues") =>
          /\ env.last = Last("detail", "ok")
          /\ details # NoDetails
          /\ ~details.isNone

C11_RequestsGatedNoRetry == []C11_Inv /\ [][C11_Step]_vars

\* A report created before the window was listed beside r1; the detail call of
\* r1 answered, its issues call failed, and the run ended with three requests.
C11_Witness ==
    /\ FullRun
    /\ report_ids = <<"r1">>
    /\ env.excluded = {"r2"}
    /\ env.last = Last("issues", "failed")
    /\ requests = <<Request("listing", None, 0), Request("detail", "r1", 1),
                    Request("issues", "r1", 1)>>

====
